---- MODULE Spec2Model ----
(***************************************************************************)
(* A model of the pattern-match DSL engine of                              *)
(* src/pattern-match/define-and-run.py: the AST builder (toast), the       *)
(* chained single-assignment SymbolTable, the Matching engine and the      *)
(* tree-walking evaluator (run).                                           *)
(*                                                                         *)
(* A program enters as a lark parse tree (Tree(data, children) with Token  *)
(* leaves carrying a line).  toast builds the AST and registers the        *)
(* candidate expressions with their Matching; run evaluates the Module     *)
(* statement by statement against a heap of SymbolTables.  Evaluation is   *)
(* instrumented with a log of events (candidate evaluations, rows set,     *)
(* placeholder reads, binds, function invocations), the model's            *)
(* evaluation-counting collaborator.                                       *)
(*                                                                         *)
(* Not modelled: the grammar/lark parser itself, Slice nodes, float        *)
(* literals, and the builtins other than + - len.                          *)
(***************************************************************************)
EXTENDS Integers, Sequences, FiniteSets, TLC

VARIABLES prog, tree, pc, ast, scopes, ms, ntag, nrun, next, err, log

vars == <<prog, tree, pc, ast, scopes, ms, ntag, nrun, next, err, log>>

\* Longest candidate collection supplied as input data: x has up to MaxLen
\* elements, y and w up to MaxLen - 1.
MaxLen == 3

(***************************************************************************)
(* Values                                                                  *)
(***************************************************************************)
NoneVal == [t |-> "none"]
Num(n) == [t |-> "num", n |-> n]
List(s) == [t |-> "list", items |-> s]
Builtin(name) == [t |-> "builtin", name |-> name]
\* the closure made by run(Function): node is the Function node it closes
\* over; defscope is the `symbols` of the run call that made it
Closure(node, sc) == [t |-> "fn", node |-> node, defscope |-> sc]
\* ID(n) of the class minted for one Pattern node; n is <<>> for None
IDv(tag, n) == [tag |-> tag, n |-> n]
Obj(id, fields) == [t |-> "obj", id |-> id, fields |-> fields]

EmptyDict == [k \in {} |-> NoneVal]
Put(d, k, v) == [x \in DOMAIN d \cup {k} |-> IF x = k THEN v ELSE d[x]]

(***************************************************************************)
(* Errors: kind is the Python exception class, the other fields are the    *)
(* parts of its message.                                                   *)
(***************************************************************************)
NoErr == [kind |-> "none"]
SyntaxErr(op) == [kind |-> "SyntaxError", text |-> "cannot use operator outside of a match", op |-> op]
KeyErr(symbol) == [kind |-> "KeyError", key |-> symbol]
RedefErr(symbol) == [kind |-> "TypeError", text |-> "symbol has multiple definitions at this scope", symbol |-> symbol]
ArityErr(line, expected, got) == [kind |-> "TypeError", text |-> "function expects arguments", online |-> line, expects |-> expected, got |-> got]
PyErr(kind, text) == [kind |-> kind, text |-> text]
FormatErr == PyErr("ValueError", "cannot switch from manual field specification to automatic field numbering")

\* mutant: an error that is a RuntimeError already is passed on as it is
WrapErrOnce(line, e) ==
    IF e.kind = "RuntimeError" THEN e
    ELSE [kind |-> "RuntimeError", online |-> line, encountered |-> e.kind, msg |-> e]

\* raise RuntimeError("on line {0}, encountered {1}: {2}".format(line,
\* type(err).__name__, str(err))): the message embeds the kind and the
\* message of the error it replaces
WrapErr(line, e) == [kind |-> "RuntimeError", online |-> line, encountered |-> e.kind, msg |-> e]

(***************************************************************************)
(* Parse trees (lark): Token(str, line) and Tree(data, children)           *)
(***************************************************************************)
Tok(s, line) == [tok |-> s, line |-> line]
Tree(data, children) == [data |-> data, children |-> children]
IsToken(x) == "tok" \in DOMAIN x

opname == [and |-> "and", or |-> "or", not |-> "not",
           eq |-> "==", ne |-> "!=", gt |-> ">", ge |-> ">=", lt |-> "<", le |-> "<=",
           add |-> "+", sub |-> "-", mul |-> "*", div |-> "/", pos |-> "+", neg |-> "-", pow |-> "**",
           symmetric |-> "~", allsymmetric |-> "~~", asymmetric |-> "!~", allasymmetric |-> "!~~"]

TildeData == {"symmetric", "allsymmetric", "asymmetric", "allasymmetric"}

(***************************************************************************)
(* AST nodes.  line 0 stands for None.                                     *)
(***************************************************************************)
\* getattr(xi, "line", None) of an AST node or Token; a Placeholder, a
\* Matching and a str have no line
LineOf(x) == IF "line" \in DOMAIN x THEN x.line ELSE 0

RECURSIVE FirstLine(_)
\* AST.__init__: self.line becomes the line of the first child that has one
FirstLine(ls) ==
    IF ls = <<>> THEN 0
    ELSE IF Head(ls) # 0 THEN Head(ls) ELSE FirstLine(Tail(ls))

LinesOf(xs) == [k \in 1..Len(xs) |-> LineOf(xs[k])]

Module(statements) ==
    [type |-> "Module", statements |-> statements, line |-> FirstLine(LinesOf(statements))]
Assignment(symbol, operator, expression) ==
    [type |-> "Assignment", symbol |-> symbol, operator |-> operator,
     expression |-> expression, line |-> LineOf(expression)]
\* mutant: the ID class of a Pattern is told apart by its name "Line<n>" only
PatternIDByLine(line, serial) == line

\* self.ID = type("Line{0}".format(self.line), (ID,), {}): a class of its own
\* for every Pattern made; ID.__eq__ compares the classes themselves, so the
\* class is the serial number of its making and its name plays no part
PatternID(line, serial) == serial

Pattern(assignments, matching, tag) ==
    [type |-> "Pattern", assignments |-> assignments, matching |-> matching,
     tag |-> tag, line |-> FirstLine(LinesOf(assignments))]
Join(expression, matching) ==
    [type |-> "Join", expression |-> expression, matching |-> matching, line |-> LineOf(expression)]
Function(parameters, plines, body) ==
    [type |-> "Function", parameters |-> parameters, body |-> body,
     line |-> FirstLine(plines \o <<LineOf(body)>>)]
Block(statements, expression) ==
    [type |-> "Block", statements |-> statements, expression |-> expression,
     line |-> FirstLine(LinesOf(statements) \o <<LineOf(expression)>>)]
Call(function, arguments) ==
    [type |-> "Call", function |-> function, arguments |-> arguments,
     line |-> FirstLine(<<LineOf(function)>> \o LinesOf(arguments))]
Subscript(object, index) ==
    [type |-> "Subscript", object |-> object, index |-> index,
     line |-> FirstLine(<<LineOf(object), LineOf(index)>>)]
Attribute(object, field) ==
    [type |-> "Attribute", object |-> object, field |-> field.tok,
     line |-> FirstLine(<<LineOf(object), LineOf(field)>>)]
Symbol(symbol, line) == [type |-> "Symbol", symbol |-> symbol, line |-> line]
Literal(value, line) == [type |-> "Literal", value |-> value, line |-> line]
Placeholder(m, n) == [type |-> "Placeholder", m |-> m, n |-> n]

RECURSIVE int(_)
\* int(token): the token's text is its sequence of decimal digits
int(digits) ==
    IF digits = <<>> THEN 0
    ELSE 10 * int(SubSeq(digits, 1, Len(digits) - 1)) + digits[Len(digits)]

(***************************************************************************)
(* Matching (construction side).  A Matching is an index into the heap ms; *)
(* 0 is None.  i and row exist only once a run has set them (isset).       *)
(***************************************************************************)
NewMatching == [collections |-> <<>>, isset |-> FALSE, i |-> 0, row |-> <<>>]

(***************************************************************************)
(* toast: parse tree -> AST.  bs = [ms, ntag] is the builder's state: the  *)
(* Matchings made so far and the number of Pattern ID classes minted.      *)
(***************************************************************************)
Built(bs, a) == [bs |-> bs, ast |-> a, err |-> NoErr]
Rejected(bs, e) == [bs |-> bs, ast |-> <<>>, err |-> e]

\* the ~ family branch with matching None:
\*   raise SyntaxError("cannot use {0} operator outside of a match {...}".format(opname[node.data]))
\* str.format reads {...} as a replacement field of its own and raises
\* ValueError before the SyntaxError is made
TildeOutside(node, bs) == Rejected(bs, FormatErr)

RECURSIVE toast(_, _, _)
RECURSIVE toastEach(_, _, _, _)

\* mutant: a join inside a join goes on with the Matching of the outer one
JoinContextShared(matching, bs) == IF matching # 0 THEN matching ELSE Len(bs.ms) + 1

\* m = Matching() of the join branch: the context its expression is built in
JoinContext(matching, bs) == Len(bs.ms) + 1

\* [toast(x, matching) for x in xs], left to right, stopping at the first error
toastEach(xs, matching, bs, acc) ==
    IF xs = <<>> THEN Built(bs, acc)
    ELSE LET r == toast(Head(xs), matching, bs) IN
         IF r.err # NoErr THEN r
         ELSE toastEach(Tail(xs), matching, r.bs, Append(acc, r.ast))

NotTokens(xs) == SelectSeq(xs, LAMBDA x : ~IsToken(x))

\* Matching.replace: self.collections.append(toast(node, self)), then
\* Placeholder(self, len(self.collections) - 1); slots are numbered from 1 here
replace(m, node, bs) ==
    LET r == toast(node, m, bs) IN
    IF r.err # NoErr THEN r
    ELSE LET cs == Append(r.bs.ms[m].collections, r.ast) IN
         Built([r.bs EXCEPT !.ms[m].collections = cs], Placeholder(m, Len(cs)))

toast(node, matching, bs) ==
    LET c == node.children IN
    CASE node.data = "pass" -> toast(c[1], matching, bs)
      [] node.data = "start" ->
            LET r == toastEach(NotTokens(c), matching, bs, <<>>) IN
            IF r.err # NoErr THEN r ELSE Built(r.bs, Module(r.ast))
      [] node.data = "funcassign" ->
            LET r == toast(c[Len(c)], matching, bs)
                ps == SubSeq(c, 2, Len(c) - 1) IN
            IF r.err # NoErr THEN r
            ELSE Built(r.bs, Assignment(c[1].tok, "=",
                     Function([k \in 1..Len(ps) |-> ps[k].tok], LinesOf(ps), r.ast)))
      [] node.data \in {"assignment", "patassign"} ->
            LET r == toast(c[2], matching, bs) IN
            IF r.err # NoErr THEN r ELSE Built(r.bs, Assignment(c[1].tok, "=", r.ast))
      [] node.data \in TildeData ->
            IF matching = 0 THEN TildeOutside(node, bs)
            ELSE LET r == replace(matching, c[2], bs) IN
                 IF r.err # NoErr THEN r
                 ELSE Built(r.bs, Assignment(c[1].tok, opname[node.data], r.ast))
      [] node.data = "pattern" ->
            LET r == toastEach(NotTokens(c), matching, bs, <<>>) IN
            IF r.err # NoErr THEN r
            ELSE Built([r.bs EXCEPT !.ntag = @ + 1],
                       Pattern(r.ast, matching,
                               PatternID(FirstLine(LinesOf(r.ast)), r.bs.ntag + 1)))
      [] node.data = "join" ->
            LET m == JoinContext(matching, bs)
                r == toast(c[1], m, [bs EXCEPT !.ms = Append(@, NewMatching)]) IN
            IF r.err # NoErr THEN r ELSE Built(r.bs, Join(r.ast, m))
      [] node.data = "function" ->
            LET p == toast(c[1], matching, bs)
                r == toast(c[2], 0, p.bs) IN
            IF r.err # NoErr THEN r
            ELSE Built(r.bs, Function(p.ast, <<>>, r.ast))
      [] node.data = "paramlist" ->
            Built(bs, [k \in 1..Len(c) |-> c[k].tok])
      [] node.data = "block" ->
            LET r == toastEach(NotTokens(c), matching, bs, <<>>) IN
            IF r.err # NoErr THEN r
            ELSE IF Len(r.ast) = 1 THEN Built(r.bs, r.ast[1])
            ELSE Built(r.bs, Block(SubSeq(r.ast, 1, Len(r.ast) - 1), r.ast[Len(r.ast)]))
      [] node.data = "call" ->
            LET f == toast(c[1], matching, bs) IN
            IF f.err # NoErr THEN f
            ELSE LET a == toast(c[2], matching, f.bs) IN
                 IF a.err # NoErr THEN a ELSE Built(a.bs, Call(f.ast, a.ast))
      [] node.data = "arglist" -> toastEach(c, matching, bs, <<>>)
      [] node.data = "subscript" ->
            LET o == toast(c[1], matching, bs) IN
            IF o.err # NoErr THEN o
            ELSE LET i == toast(c[2], matching, o.bs) IN
                 IF i.err # NoErr THEN i ELSE Built(i.bs, Subscript(o.ast, i.ast))
      [] node.data = "attribute" ->
            LET o == toast(c[1], matching, bs) IN
            IF o.err # NoErr THEN o ELSE Built(o.bs, Attribute(o.ast, c[2]))
      [] node.data = "symbol" -> Built(bs, Symbol(c[1].tok, c[1].line))
      [] node.data = "int" -> Built(bs, Literal(int(c[1].tok), c[1].line))
      [] node.data \in DOMAIN opname ->
            LET r == toastEach(c, matching, bs, <<>>) IN
            IF r.err # NoErr THEN r
            ELSE Built(r.bs, Call(Symbol(opname[node.data], 0), r.ast))
      [] OTHER -> Rejected(bs, PyErr("AssertionError", node.data))

(***************************************************************************)
(* SymbolTable.  A scope is an index into the heap `scopes`; parent 0 is   *)
(* None.                                                                   *)
(***************************************************************************)
SymbolTable(parent, symbols) == [parent |-> parent, symbols |-> symbols]

RECURSIVE getitem(_, _, _)
\* SymbolTable.__getitem__
getitem(tables, s, symbol) ==
    IF symbol \in DOMAIN tables[s].symbols
    THEN [val |-> tables[s].symbols[symbol], err |-> NoErr]
    ELSE IF tables[s].parent # 0
    THEN getitem(tables, tables[s].parent, symbol)
    ELSE [val |-> NoneVal, err |-> KeyErr(symbol)]

\* mutant: binding a name again to the value it has is accepted
setitemSameValue(tables, s, symbol, value) ==
    IF symbol \in DOMAIN tables[s].symbols /\ tables[s].symbols[symbol] # value
    THEN [tables |-> tables, err |-> RedefErr(symbol)]
    ELSE [tables |-> [tables EXCEPT ![s].symbols = Put(@, symbol, value)], err |-> NoErr]

\* mutant: a name bound in an ancestor counts as bound in this scope
setitemNoShadowing(tables, s, symbol, value) ==
    IF getitem(tables, s, symbol).err = NoErr
    THEN [tables |-> tables, err |-> RedefErr(symbol)]
    ELSE [tables |-> [tables EXCEPT ![s].symbols = Put(@, symbol, value)], err |-> NoErr]

\* SymbolTable.__setitem__
setitem(tables, s, symbol, value) ==
    IF symbol \in DOMAIN tables[s].symbols
    THEN [tables |-> tables, err |-> RedefErr(symbol)]
    ELSE [tables |-> [tables EXCEPT ![s].symbols = Put(@, symbol, value)], err |-> NoErr]

(***************************************************************************)
(* Evaluation.  st = [scopes, ms, log, nrun, active]: the heap of          *)
(* SymbolTables, the Matchings, the event log, the number of Matching.run  *)
(* calls made and the stack of the run generators not yet exhausted.       *)
(* Every step returns [st, val, err]; on an error st holds the effects     *)
(* made before it was raised.                                              *)
(***************************************************************************)
Ok(st, v) == [st |-> st, val |-> v, err |-> NoErr]
Raise(st, e) == [st |-> st, val |-> NoneVal, err |-> e]
Logged(st, e) == [st EXCEPT !.log = Append(@, e)]

\* except Exception as err: raise RuntimeError(...) of Call, Subscript,
\* Attribute and Symbol
Reraise(node, r) ==
    Raise(Logged(r.st, [ev |-> "wrap", type |-> node.type, line |-> node.line]),
          WrapErr(node.line, r.err))

\* symbols[node.symbol] = value, of Assignment
Bind(st, sc, symbol, value) ==
    LET had == symbol \in DOMAIN st.scopes[sc].symbols
        up == IF st.scopes[sc].parent = 0 THEN [val |-> NoneVal, err |-> KeyErr(symbol)]
              ELSE getitem(st.scopes, st.scopes[sc].parent, symbol)
        r == setitem(st.scopes, sc, symbol, value)
        e == [ev |-> "bind", scope |-> sc, symbol |-> symbol, value |-> value,
              had |-> had, old |-> IF had THEN st.scopes[sc].symbols[symbol] ELSE NoneVal,
              outer |-> up, err |-> r.err]
        st2 == Logged([st EXCEPT !.scopes = r.tables], e) IN
    IF r.err # NoErr THEN Raise(st2, r.err) ELSE Ok(st2, NoneVal)

\* a run of Matching m is being consumed and has set self.i, self.row
Live(st, m) == \E k \in 1..Len(st.active) : st.active[k].m = m /\ st.active[k].set

RECURSIVE CurrentRun(_, _, _)
\* the innermost run of Matching m that is being consumed (0: none)
CurrentRun(st, m, k) ==
    IF k = 0 THEN 0
    ELSE IF st.active[k].m = m THEN st.active[k].run
    ELSE CurrentRun(st, m, k - 1)

\* self.i and self.row of the Matchings whose run is being consumed
Snapshot(st) ==
    [k \in 1..Len(st.active) |->
        [m |-> st.active[k].m, i |-> st.ms[st.active[k].m].i, row |-> st.ms[st.active[k].m].row]]

\* Matching.Placeholder.value: self.m.row[self.n]
value(ph, st) ==
    LET m == st.ms[ph.m] IN
    IF ~m.isset
    THEN Raise(Logged(st, [ev |-> "unset", m |-> ph.m, attr |-> "row", live |-> Live(st, ph.m)]),
               PyErr("AttributeError", "row"))
    ELSE IF ph.n > Len(m.row) THEN Raise(st, PyErr("IndexError", "tuple index out of range"))
    ELSE Ok(Logged(st, [ev |-> "resolve", m |-> ph.m, n |-> ph.n, i |-> m.i, val |-> m.row[ph.n],
                      live |-> Live(st, ph.m), run |-> CurrentRun(st, ph.m, Len(st.active))]),
            m.row[ph.n])

RECURSIVE MinLen(_)
MinLen(lists) ==
    IF Len(lists) = 1 THEN Len(lists[1])
    ELSE LET r == MinLen(Tail(lists)) IN IF Len(Head(lists)) < r THEN Len(Head(lists)) ELSE r

\* mutant: zip(*lists) in place of the product
productZip(lists) ==
    IF lists = <<>> THEN << <<>> >>
    ELSE [k \in 1..MinLen(lists) |-> [j \in 1..Len(lists) |-> lists[j][k]]]

RECURSIVE productFirstFastest(_)
\* mutant: the leftmost list advances fastest
productFirstFastest(lists) ==
    IF lists = <<>> THEN << <<>> >>
    ELSE LET rest == productFirstFastest(Tail(lists))
             first == Head(lists)
             n == Len(first) IN
         [k \in 1..(n * Len(rest)) |->
             <<first[((k - 1) % n) + 1]>> \o rest[((k - 1) \div n) + 1]]

RECURSIVE product(_)
\* itertools.product(*lists): the rightmost list advances fastest
product(lists) ==
    IF lists = <<>> THEN << <<>> >>
    ELSE LET rest == product(Tail(lists))
             first == Head(lists)
             n == Len(rest) IN
         [k \in 1..(Len(first) * n) |->
             <<first[((k - 1) \div n) + 1]>> \o rest[((k - 1) % n) + 1]]

\* the two-operand builtins: run(arguments[0]) OP run(arguments[1])
BinOp(name, a, b) ==
    CASE name = "+" /\ a.t = "num" /\ b.t = "num" -> [val |-> Num(a.n + b.n), err |-> NoErr]
      [] name = "+" /\ a.t = "list" /\ b.t = "list" -> [val |-> List(a.items \o b.items), err |-> NoErr]
      [] name = "-" /\ a.t = "num" /\ b.t = "num" -> [val |-> Num(a.n - b.n), err |-> NoErr]
      [] OTHER -> [val |-> NoneVal, err |-> PyErr("TypeError", "unsupported operand type(s)")]

\* the one-operand forms of + and -
UnOp(name, a) ==
    CASE name = "+" /\ a.t = "num" -> [val |-> a, err |-> NoErr]
      [] name = "-" /\ a.t = "num" -> [val |-> Num(0 - a.n), err |-> NoErr]
      [] OTHER -> [val |-> NoneVal, err |-> PyErr("TypeError", "bad operand type for unary")]

\* object[index] of Subscript
Index(o, ix) ==
    CASE o.t = "list" /\ ix.t = "num" ->
            IF ix.n >= 0 /\ ix.n < Len(o.items) THEN [val |-> o.items[ix.n + 1], err |-> NoErr]
            ELSE IF ix.n < 0 /\ 0 - ix.n <= Len(o.items)
            THEN [val |-> o.items[Len(o.items) + ix.n + 1], err |-> NoErr]
            ELSE [val |-> NoneVal, err |-> PyErr("IndexError", "list index out of range")]
      [] o.t = "list" -> [val |-> NoneVal, err |-> PyErr("TypeError", "list indices must be integers or slices")]
      [] o.t = "obj" -> [val |-> NoneVal, err |-> PyErr("KeyError", "index")]
      [] OTHER -> [val |-> NoneVal, err |-> PyErr("TypeError", "object is not subscriptable")]

\* getattr(object, field) of Attribute; obj.__getattr__ for a Record
GetAttr(o, field) ==
    IF o.t = "obj" /\ field \in DOMAIN o.fields THEN [val |-> o.fields[field], err |-> NoErr]
    ELSE [val |-> NoneVal, err |-> PyErr("AttributeError", field)]

\* SymbolTable(symbols, scope) of the function value: `symbols` there is the
\* parameter of function(arguments, symbols), the scope of the calling Call,
\* which hides the `symbols` of the run call that made the function (f.defscope)
BodyParent(f, caller) == caller

RECURSIVE run(_, _, _)
RECURSIVE runEach(_, _, _)
RECURSIVE runCollections(_, _, _, _, _, _)
RECURSIVE runRows(_, _, _, _, _, _, _)
RECURSIVE bindParams(_, _, _, _, _, _)

\* for x in nodes: run(x, symbols)
runEach(nodes, sc, st) ==
    IF nodes = <<>> THEN Ok(st, NoneVal)
    ELSE LET r == run(Head(nodes), sc, st) IN
         IF r.err # NoErr THEN r ELSE runEach(Tail(nodes), sc, r.st)

\* evaluated = [run(x, symbols) for x in self.collections]
runCollections(cs, k, mr, sc, st, acc) ==
    IF k > Len(cs) THEN Ok(st, acc)
    ELSE LET r == run(cs[k], sc, Logged(st, [ev |-> "cand", run |-> mr.run, m |-> mr.m, n |-> k])) IN
         IF r.err # NoErr THEN r
         ELSE runCollections(cs, k + 1, mr, sc, r.st, Append(acc, r.val))

\* mutant: the candidate expressions are evaluated again for every row
runRowsReevaluating(rows, k, mr, node, sc, st, acc) ==
    IF k > Len(rows) THEN Ok(st, List(acc))
    ELSE LET e == runCollections(st.ms[mr.m].collections, 1, mr, sc, st, <<>>)
             st1 == [e.st EXCEPT !.ms[mr.m] = [@ EXCEPT !.isset = TRUE, !.i = k - 1, !.row = rows[k]],
                                 !.active[Len(st.active)].set = TRUE]
             st2 == Logged(st1, [ev |-> "row", run |-> mr.run, m |-> mr.m, i |-> k - 1, row |-> rows[k]])
             r == run(node, sc, st2) IN
         IF e.err # NoErr THEN e
         ELSE IF r.err # NoErr THEN r
         ELSE runRows(rows, k + 1, mr, node, sc, r.st, Append(acc, r.val))

\* for i, row in enumerate(product): self.i, self.row = i, row; yield run(node, symbols)
runRows(rows, k, mr, node, sc, st, acc) ==
    IF k > Len(rows) THEN Ok(st, List(acc))
    ELSE LET st1 == [st EXCEPT !.ms[mr.m] = [@ EXCEPT !.isset = TRUE, !.i = k - 1, !.row = rows[k]],
                                  !.active[Len(st.active)].set = TRUE]
             st2 == Logged(st1, [ev |-> "row", run |-> mr.run, m |-> mr.m, i |-> k - 1, row |-> rows[k]])
             r == run(node, sc, st2) IN
         IF r.err # NoErr THEN r
         ELSE runRows(rows, k + 1, mr, node, sc, r.st, Append(acc, r.val))

\* Matching.run, consumed by list() in run(Join)
MatchingRun(m, node, sc, st) ==
    LET mr == [m |-> m, run |-> st.nrun + 1, outer |-> Snapshot(st)]
        st1 == Logged([st EXCEPT !.nrun = @ + 1,
                                 !.active = Append(@, [run |-> st.nrun + 1, m |-> m, set |-> FALSE])],
                      [ev |-> "run", run |-> mr.run, m |-> m])
        ev == runCollections(st.ms[m].collections, 1, mr, sc, st1, <<>>) IN
    IF ev.err # NoErr THEN ev
    ELSE IF \E k \in 1..Len(ev.val) : ev.val[k].t # "list"
    THEN Raise(ev.st, PyErr("TypeError", "object is not iterable"))
    ELSE LET lists == [k \in 1..Len(ev.val) |-> ev.val[k].items]
             st2 == Logged(ev.st, [ev |-> "evaluated", run |-> mr.run, m |-> m, lists |-> lists])
             r == runRows(product(lists), 1, mr, node, sc, st2, <<>>) IN
         IF r.err # NoErr THEN r
         ELSE LET st3 == [r.st EXCEPT !.active = SubSeq(@, 1, Len(@) - 1)] IN
              Ok(Logged(st3, [ev |-> "ran", run |-> mr.run, m |-> m, count |-> Len(r.val.items),
                              outer |-> mr.outer, left |-> Snapshot(st3),
                              pattern |-> node.type = "Pattern", out |-> r.val.items]), r.val)

\* for param, arg in zip(node.parameters, arguments): scope[param] = run(arg, symbols)
bindParams(params, args, k, sc, st, scope) ==
    IF k > Len(params) \/ k > Len(args) THEN Ok(st, scope)
    ELSE LET r == run(args[k], sc, Logged(st, [ev |-> "arg", k |-> k])) IN
         IF r.err # NoErr THEN r
         ELSE bindParams(params, args, k + 1, sc, r.st, Put(scope, params[k], r.val))

\* mutant: the argument count is compared after the arguments are evaluated
CallFunctionLateCheck(f, arguments, sc, st) ==
    LET node == f.node
        st1 == Logged(st, [ev |-> "invoke", line |-> node.line, params |-> node.parameters, expects |-> Len(node.parameters),
                           got |-> Len(arguments)])
        p == bindParams(node.parameters, arguments, 1, sc, st1, EmptyDict) IN
    IF p.err # NoErr THEN p
    ELSE IF Len(node.parameters) # Len(arguments)
    THEN Raise(p.st, ArityErr(node.line, Len(node.parameters), Len(arguments)))
    ELSE LET new == Len(p.st.scopes) + 1
             st2 == [p.st EXCEPT !.scopes = Append(@, SymbolTable(BodyParent(f, sc), p.val))]
             st3 == Logged(st2, [ev |-> "body", line |-> node.line, params |-> node.parameters, scope |-> new,
                                 defscope |-> f.defscope, caller |-> sc]) IN
         run(node.body, new, st3)

\* the function value made by run(Function), called with (arguments, symbols)
CallFunction(f, arguments, sc, st) ==
    LET node == f.node
        st1 == Logged(st, [ev |-> "invoke", line |-> node.line, params |-> node.parameters, expects |-> Len(node.parameters),
                           got |-> Len(arguments)]) IN
    IF Len(node.parameters) # Len(arguments)
    THEN Raise(st1, ArityErr(node.line, Len(node.parameters), Len(arguments)))
    ELSE LET p == bindParams(node.parameters, arguments, 1, sc, st1, EmptyDict) IN
         IF p.err # NoErr THEN p
         ELSE LET new == Len(p.st.scopes) + 1
                  st2 == [p.st EXCEPT !.scopes = Append(@, SymbolTable(BodyParent(f, sc), p.val))]
                  st3 == Logged(st2, [ev |-> "body", line |-> node.line, params |-> node.parameters, scope |-> new,
                                      defscope |-> f.defscope, caller |-> sc]) IN
              run(node.body, new, st3)

\* a builtin lambda arguments, symbols: ...
CallBuiltin(name, arguments, sc, st) ==
    LET a == run(arguments[1], sc, st) IN
    IF a.err # NoErr THEN a
    ELSE IF name = "len"
    THEN IF a.val.t = "list" THEN Ok(a.st, Num(Len(a.val.items)))
         ELSE Raise(a.st, PyErr("TypeError", "object has no len()"))
    ELSE IF Len(arguments) = 1
    THEN LET u == UnOp(name, a.val) IN
         IF u.err # NoErr THEN Raise(a.st, u.err) ELSE Ok(a.st, u.val)
    ELSE LET b == run(arguments[2], sc, a.st) IN
         IF b.err # NoErr THEN b
         ELSE LET v == BinOp(name, a.val, b.val) IN
              IF v.err # NoErr THEN Raise(b.st, v.err) ELSE Ok(b.st, v.val)

\* run(node.function, symbols)(node.arguments, symbols)
Invoke(f, arguments, sc, st) ==
    CASE f.t = "fn" -> CallFunction(f, arguments, sc, st)
      [] f.t = "builtin" -> CallBuiltin(f.name, arguments, sc, st)
      [] OTHER -> Raise(st, PyErr("TypeError", "object is not callable"))

\* run(Assignment)
RunAssignment(node, sc, st) ==
    LET r == IF node.expression.type = "Placeholder" THEN value(node.expression, st)
             ELSE run(node.expression, sc, st) IN
    IF r.err # NoErr THEN r ELSE Bind(r.st, sc, node.symbol, r.val)

\* mutant: the Record of a Pattern never carries a combination index
PatternIdentityNone(node, st) == IDv(node.tag, <<>>)

\* node.ID(None) if node.matching is None else node.ID(node.matching.i)
PatternIdentity(node, st) ==
    IDv(node.tag, IF node.matching = 0 THEN <<>> ELSE <<st.ms[node.matching].i>>)

\* run(Pattern)
RunPattern(node, sc, st) ==
    IF node.matching # 0 /\ ~st.ms[node.matching].isset
    THEN Raise(Logged(st, [ev |-> "unset", m |-> node.matching, attr |-> "i",
                           live |-> Live(st, node.matching)]),
               PyErr("AttributeError", "i"))
    ELSE LET id == PatternIdentity(node, st)
             new == Len(st.scopes) + 1
             st0 == IF node.matching = 0 THEN st
                    ELSE Logged(st, [ev |-> "index", m |-> node.matching,
                                     i |-> st.ms[node.matching].i, scope |-> new,
                                     live |-> Live(st, node.matching),
                                     run |-> CurrentRun(st, node.matching, Len(st.active))])
             st1 == [st0 EXCEPT !.scopes = Append(@, SymbolTable(sc, EmptyDict))]
             r == runEach(node.assignments, new, st1)
             out == Obj(id, r.st.scopes[new].symbols)
             e == [ev |-> "record", tag |-> node.tag, m |-> node.matching,
                   names |-> [k \in 1..Len(node.assignments) |-> node.assignments[k].symbol],
                   scope |-> new, parent |-> sc,
                   before |-> DOMAIN st.scopes[sc].symbols,
                   after |-> DOMAIN r.st.scopes[sc].symbols, out |-> out] IN
         IF r.err # NoErr THEN r ELSE Ok(Logged(r.st, e), out)

\* run(Block)
RunBlock(node, sc, st) ==
    LET new == Len(st.scopes) + 1
        st1 == [st EXCEPT !.scopes = Append(@, SymbolTable(sc, EmptyDict))]
        r == runEach(node.statements, new, st1) IN
    IF r.err # NoErr THEN r ELSE run(node.expression, new, r.st)

\* run(Call)
RunCall(node, sc, st) ==
    LET f == run(node.function, sc, st) IN
    IF f.err # NoErr THEN Reraise(node, f)
    ELSE LET r == Invoke(f.val, node.arguments, sc, f.st) IN
         IF r.err # NoErr THEN Reraise(node, r) ELSE r

\* run(Subscript)
RunSubscript(node, sc, st) ==
    LET o == run(node.object, sc, st) IN
    IF o.err # NoErr THEN Reraise(node, o)
    ELSE LET i == run(node.index, sc, o.st) IN
         IF i.err # NoErr THEN Reraise(node, i)
         ELSE LET v == Index(o.val, i.val) IN
              IF v.err # NoErr THEN Reraise(node, Raise(i.st, v.err)) ELSE Ok(i.st, v.val)

\* run(Attribute)
RunAttribute(node, sc, st) ==
    LET o == run(node.object, sc, st) IN
    IF o.err # NoErr THEN Reraise(node, o)
    ELSE LET v == GetAttr(o.val, node.field) IN
         IF v.err # NoErr THEN Reraise(node, Raise(o.st, v.err)) ELSE Ok(o.st, v.val)

\* run(Symbol)
RunSymbol(node, sc, st) ==
    LET v == getitem(st.scopes, sc, node.symbol)
        st1 == Logged(st, [ev |-> "lookup", scope |-> sc, symbol |-> node.symbol, err |-> v.err]) IN
    IF v.err # NoErr THEN Reraise(node, Raise(st1, v.err)) ELSE Ok(st1, v.val)

run(node, sc, st) ==
    CASE node.type = "Module" -> runEach(node.statements, sc, st)
      [] node.type = "Assignment" -> RunAssignment(node, sc, st)
      [] node.type = "Join" -> MatchingRun(node.matching, node.expression, sc, st)
      [] node.type = "Pattern" -> RunPattern(node, sc, st)
      [] node.type = "Function" -> Ok(st, Closure(node, sc))
      [] node.type = "Block" -> RunBlock(node, sc, st)
      [] node.type = "Call" -> RunCall(node, sc, st)
      [] node.type = "Subscript" -> RunSubscript(node, sc, st)
      [] node.type = "Attribute" -> RunAttribute(node, sc, st)
      [] node.type = "Symbol" -> RunSymbol(node, sc, st)
      [] node.type = "Literal" -> Ok(st, Num(node.value))
      [] OTHER -> Raise(st, PyErr("AssertionError", node.type))

(***************************************************************************)
(* Programs: the parse trees lark produces for the source texts quoted     *)
(* beside them.  `pass` stands for the chain of aliased rules              *)
(* (expression, function, or, ... atom) above a node.                      *)
(***************************************************************************)
P(x) == Tree("pass", <<x>>)
NL == Tok("NEWLINE", 0)
Sym(name, line) == P(Tree("symbol", <<Tok(name, line)>>))
IntLit(digits, line) == P(Tree("int", <<Tok(digits, line)>>))
Assign(name, line, e) == P(Tree("assignment", <<Tok(name, line), e>>))
FuncAssign(name, line, params, body) ==
    P(Tree("funcassign", <<Tok(name, line)>> \o [k \in 1..Len(params) |-> Tok(params[k], line)]
                         \o <<Tree("block", <<body>>)>>))
PatAssign(name, line, e) == Tree("patassign", <<Tok(name, line), e>>)
Tilde(data, name, line, e) == Tree(data, <<Tok(name, line), e>>)
PatternT(assigns) == P(Tree("pattern", assigns))
BlockT(items) == P(Tree("block", items))
JoinT(e) == P(Tree("join", <<e>>))
Lambda(params, line, body) ==
    P(Tree("function", <<Tree("paramlist", [k \in 1..Len(params) |-> Tok(params[k], line)]),
                         Tree("block", <<body>>)>>))
CallT(f, args) == P(Tree("call", <<f, Tree("arglist", args)>>))
SubscriptT(o, i) == P(Tree("subscript", <<o, P(i)>>))
AttributeT(o, field, line) == P(Tree("attribute", <<o, Tok(field, line)>>))
Op(data, args) == P(Tree(data, args))
Start(stmts) == Tree("start", stmts)

RECURSIVE arith(_)
\* the tree the grammar gives to  term (("+" | "-") term)* ; src is the
\* sequence <<term, operator, term, ...>> of the terms' trees and the signs
\*   arith: term -> pass | term "+" arith -> add | term "-" arith -> sub
\* the rule recurses on its right, so everything after the first sign is
\* one operand
arith(src) ==
    IF Len(src) = 1 THEN P(src[1])
    ELSE P(Tree(IF src[2] = "+" THEN "add" ELSE "sub",
                <<src[1], arith(SubSeq(src, 3, Len(src)))>>))
LenOf(name, line) == CallT(Sym("len", line), <<Sym(name, line)>>)

\* z = join {
\*     xi ~ x
\*     yi ~ y
\* }                                  and its variants with one and three slots
JoinOf(assigns) == Start(<<NL, Assign("z", 1, JoinT(PatternT(assigns))), NL>>)
TX == Tilde("symmetric", "xi", 2, Sym("x", 2))
TY == Tilde("symmetric", "yi", 3, Sym("y", 3))

Programs == <<
    [name |-> "join1", tree |-> JoinOf(<<NL, TX, NL>>)],
    [name |-> "join2", tree |-> JoinOf(<<NL, TX, NL, TY, NL>>)],
    \* z = join { yi ~~ y; xi !~ x }
    [name |-> "join2r", tree |-> JoinOf(<<Tilde("allsymmetric", "yi", 1, Sym("y", 1)),
                                          Tilde("asymmetric", "xi", 1, Sym("x", 1))>>)],
    \* z = join { xi ~ x; yi ~ y; wi !~~ w; s = xi + yi }
    [name |-> "join3", tree |-> JoinOf(<<TX, TY, Tilde("allasymmetric", "wi", 4, Sym("w", 4)),
                                         PatAssign("s", 5, Op("add", <<Sym("xi", 5), Sym("yi", 5)>>))>>)],
    \* z = join { c = len(x) }
    [name |-> "join0", tree |-> JoinOf(<<PatAssign("c", 1, CallT(Sym("len", 1), <<Sym("x", 1)>>))>>)],
    \* ident(v) = v; z = join { xi ~ ident(x); yi ~ y }
    [name |-> "joincall", tree |-> Start(<<
        FuncAssign("ident", 1, <<"v">>, Sym("v", 1)), NL,
        Assign("z", 2, JoinT(PatternT(<<Tilde("symmetric", "xi", 2, CallT(Sym("ident", 2), <<Sym("x", 2)>>)),
                                        TY>>)))>>)],
    \* z = join { xi ~ x; inner = join { yi ~ y } }
    [name |-> "nested", tree |-> JoinOf(<<TX, PatAssign("inner", 3, JoinT(PatternT(<<TY>>)))>>)],
    \* z = join { xi ~ x; inner = join { yi ~ y }; wi !~ w }
    [name |-> "nested2", tree |-> JoinOf(<<TX, PatAssign("inner", 3, JoinT(PatternT(<<TY>>))),
                                           Tilde("asymmetric", "wi", 4, Sym("w", 4))>>)],
    \* z = join { xi ~ x; bad = xi.pt }
    [name |-> "joinfail", tree |-> JoinOf(<<TX, PatAssign("bad", 3, AttributeT(Sym("xi", 3), "pt", 3))>>)],
    \* z = join { xi ~ x; yi ~ nope }
    [name |-> "candfail", tree |-> JoinOf(<<TX, Tilde("symmetric", "yi", 3, Sym("nope", 3))>>)],
    \* a = 1; f(p) = a + p; g(a) = f(a); r = g(5)
    [name |-> "closure", tree |-> Start(<<
        Assign("a", 1, IntLit(<<1>>, 1)), NL,
        FuncAssign("f", 2, <<"p">>, Op("add", <<Sym("a", 2), Sym("p", 2)>>)), NL,
        FuncAssign("g", 3, <<"a">>, CallT(Sym("f", 3), <<Sym("a", 3)>>)), NL,
        Assign("r", 4, CallT(Sym("g", 4), <<IntLit(<<5>>, 4)>>))>>)],
    \* f = p => b + p; g = b => f(b); r = g(5)
    [name |-> "closure_unbound", tree |-> Start(<<
        Assign("f", 1, Lambda(<<"p">>, 1, Op("add", <<Sym("b", 1), Sym("p", 1)>>))), NL,
        Assign("g", 2, Lambda(<<"b">>, 2, CallT(Sym("f", 2), <<Sym("b", 2)>>))), NL,
        Assign("r", 3, CallT(Sym("g", 3), <<IntLit(<<5>>, 3)>>))>>)],
    \* quad(p, q) = p + q; q = quad(x[0], 12)
    [name |-> "quad", tree |-> Start(<<
        FuncAssign("quad", 1, <<"p", "q">>, Op("add", <<Sym("p", 1), Sym("q", 1)>>)), NL,
        Assign("q", 2, CallT(Sym("quad", 2), <<SubscriptT(Sym("x", 2), IntLit(<<0>>, 2)), IntLit(<<1, 2>>, 2)>>))>>)],
    \* a = 1; a = 1; c = 2
    [name |-> "redef_same", tree |-> Start(<<
        Assign("a", 1, IntLit(<<1>>, 1)), NL, Assign("a", 2, IntLit(<<1>>, 2)), NL,
        Assign("c", 3, IntLit(<<2>>, 3))>>)],
    \* a = 1; a = 2
    [name |-> "redef_diff", tree |-> Start(<<
        Assign("a", 1, IntLit(<<1>>, 1)), NL, Assign("a", 2, IntLit(<<2>>, 2))>>)],
    \* b = { a = 1; a = 2; a }
    [name |-> "redef_block", tree |-> Start(<<
        Assign("b", 1, BlockT(<<Assign("a", 1, IntLit(<<1>>, 1)), Assign("a", 1, IntLit(<<2>>, 1)),
                                Sym("a", 1)>>))>>)],
    \* a = 1; b = { a = 2; a }; c = a
    [name |-> "shadow", tree |-> Start(<<
        Assign("a", 1, IntLit(<<1>>, 1)), NL,
        Assign("b", 2, BlockT(<<Assign("a", 2, IntLit(<<2>>, 2)), Sym("a", 2)>>)), NL,
        Assign("c", 3, Sym("a", 3))>>)],
    \* len = 3; n = len; m = { x = len; x }
    [name |-> "shadow_builtin", tree |-> Start(<<
        Assign("len", 1, IntLit(<<3>>, 1)), NL, Assign("n", 2, Sym("len", 2)), NL,
        Assign("m", 3, BlockT(<<Assign("x", 3, Sym("len", 3)), Sym("x", 3)>>))>>)],
    \* a = nope; b = 1
    [name |-> "fail1", tree |-> Start(<<
        Assign("a", 1, Sym("nope", 1)), NL, Assign("b", 2, IntLit(<<1>>, 2))>>)],
    \* a = 1; b = nope; c = 2
    [name |-> "fail2", tree |-> Start(<<
        Assign("a", 1, IntLit(<<1>>, 1)), NL, Assign("b", 2, Sym("nope", 2)), NL,
        Assign("c", 3, IntLit(<<2>>, 3))>>)],
    \* a = 1; b = 2; c = { d = a; d.pt }
    [name |-> "fail3", tree |-> Start(<<
        Assign("a", 1, IntLit(<<1>>, 1)), NL, Assign("b", 2, IntLit(<<2>>, 2)), NL,
        Assign("c", 3, BlockT(<<Assign("d", 3, Sym("a", 3)), AttributeT(Sym("d", 3), "pt", 3)>>))>>)],
    \* f(p, q) = p + q; r = f(x[0])
    [name |-> "arity_less", tree |-> Start(<<
        FuncAssign("f", 1, <<"p", "q">>, Op("add", <<Sym("p", 1), Sym("q", 1)>>)), NL,
        Assign("r", 2, CallT(Sym("f", 2), <<SubscriptT(Sym("x", 2), IntLit(<<0>>, 2))>>))>>)],
    \* f = p =>
    \*     p
    \* r = f(1, nope)
    [name |-> "arity_more", tree |-> Start(<<
        Assign("f", 1, Lambda(<<"p">>, 1, Sym("p", 2))), NL,
        Assign("r", 3, CallT(Sym("f", 3), <<IntLit(<<1>>, 3), Sym("nope", 3)>>))>>)],
    \* f(p, q) = p + q
    \* r = len(
    \*     f(x))
    [name |-> "arity_nested", tree |-> Start(<<
        FuncAssign("f", 1, <<"p", "q">>, Op("add", <<Sym("p", 1), Sym("q", 1)>>)), NL,
        Assign("r", 2, CallT(Sym("len", 2), <<CallT(Sym("f", 3), <<Sym("x", 3)>>)>>))>>)],
    \* g(v) = v
    \* r = g(
    \*     x[
    \*     9]).fld
    [name |-> "nested_err", tree |-> Start(<<
        FuncAssign("g", 1, <<"v">>, Sym("v", 1)), NL,
        Assign("r", 2, AttributeT(CallT(Sym("g", 2), <<SubscriptT(Sym("x", 3), IntLit(<<9>>, 4))>>), "fld", 4))>>)],
    \* r = (-x)[
    \*     0]
    [name |-> "nested_err2", tree |-> Start(<<
        Assign("r", 1, SubscriptT(Op("neg", <<Sym("x", 1)>>), IntLit(<<0>>, 2)))>>)],
    \* z = { a ~ x }  and the same with ~~, !~ and !~~
    [name |-> "tilde_outside", tree |-> Start(<<Assign("z", 1, PatternT(<<Tilde("symmetric", "a", 1, Sym("x", 1))>>))>>)],
    [name |-> "tilde_outside2", tree |-> Start(<<Assign("z", 1, PatternT(<<Tilde("allsymmetric", "a", 1, Sym("x", 1))>>))>>)],
    [name |-> "tilde_outside3", tree |-> Start(<<Assign("z", 1, PatternT(<<Tilde("asymmetric", "a", 1, Sym("x", 1))>>))>>)],
    [name |-> "tilde_outside4", tree |-> Start(<<Assign("z", 1, PatternT(<<Tilde("allasymmetric", "a", 1, Sym("x", 1))>>))>>)],
    \* z = join { xi ~ x; f = q => { b !~ y } }
    [name |-> "tilde_lambda", tree |-> JoinOf(<<TX,
        PatAssign("f", 3, Lambda(<<"q">>, 3, PatternT(<<Tilde("asymmetric", "b", 3, Sym("y", 3))>>)))>>)],
    \* p = { c = 1; d = c }
    [name |-> "plain_pattern", tree |-> Start(<<
        Assign("p", 1, PatternT(<<PatAssign("c", 1, IntLit(<<1>>, 1)), PatAssign("d", 1, Sym("c", 1))>>))>>)],
    \* r = len(x) - len(y) - len(w)
    [name |-> "sub_sub", tree |-> Start(<<
        Assign("r", 1, arith(<<LenOf("x", 1), "-", LenOf("y", 1), "-", LenOf("w", 1)>>))>>)],
    \* r = len(x) - len(y) + len(w)
    [name |-> "sub_add", tree |-> Start(<<
        Assign("r", 1, arith(<<LenOf("x", 1), "-", LenOf("y", 1), "+", LenOf("w", 1)>>))>>)],
    \* z = join {
    \*     z1 ~ {
    \*         mu1 ~ x
    \*         mu2 ~ x } }
    [name |-> "higgs", tree |-> Start(<<
        Assign("z", 1, JoinT(PatternT(<<Tilde("symmetric", "z1", 2,
            PatternT(<<Tilde("symmetric", "mu1", 3, Sym("x", 3)),
                       Tilde("symmetric", "mu2", 4, Sym("x", 4))>>))>>)))>>)],
    \* z = join { g(p) = { a ~ x }; g }
    \* r = z[0](1)
    [name |-> "late", tree |-> Start(<<
        Assign("z", 1, JoinT(BlockT(<<
            FuncAssign("g", 1, <<"p">>, PatternT(<<Tilde("symmetric", "a", 1, Sym("x", 1))>>)),
            Sym("g", 1)>>))), NL,
        Assign("r", 2, CallT(SubscriptT(Sym("z", 2), IntLit(<<0>>, 2)), <<IntLit(<<1>>, 2)>>))>>)],
    \* f = (p, p) => p
    \* r = f(1, 2)
    [name |-> "dup_param", tree |-> Start(<<
        Assign("f", 1, Lambda(<<"p", "p">>, 1, Sym("p", 1))), NL,
        Assign("r", 2, CallT(Sym("f", 2), <<IntLit(<<1>>, 2), IntLit(<<2>>, 2)>>))>>)],
    \* r = { c = 1; c = 1 }
    [name |-> "dup_field", tree |-> Start(<<
        Assign("r", 1, PatternT(<<PatAssign("c", 1, IntLit(<<1>>, 1)),
                                  PatAssign("c", 1, IntLit(<<1>>, 1))>>))>>)],
    \* z = join { xi ~ x; f = q => { b = q } }
    [name |-> "pattern_lambda", tree |-> JoinOf(<<TX,
        PatAssign("f", 3, Lambda(<<"q">>, 3, PatternT(<<PatAssign("b", 3, Sym("q", 3))>>)))>>)],
    \* stop(h) = 0
    \* f(h) = join { a ~ x
    \*               b = h(stop)
    \*               c ~ y }
    \* r = f(f)
    [name |-> "reentrant", tree |-> Start(<<
        FuncAssign("stop", 1, <<"h">>, IntLit(<<0>>, 1)), NL,
        FuncAssign("f", 2, <<"h">>, JoinT(PatternT(<<
            Tilde("symmetric", "a", 2, Sym("x", 2)),
            PatAssign("b", 3, CallT(Sym("h", 3), <<Sym("stop", 3)>>)),
            Tilde("symmetric", "c", 4, Sym("y", 4))>>))), NL,
        Assign("r", 5, CallT(Sym("f", 5), <<Sym("f", 5)>>))>>)],
    \* a = { p = 1 }; b = { p = 1 }
    [name |-> "twins", tree |-> Start(<<
        Assign("a", 1, PatternT(<<PatAssign("p", 1, IntLit(<<1>>, 1))>>)),
        Assign("b", 1, PatternT(<<PatAssign("p", 1, IntLit(<<1>>, 1))>>))>>)],
    \* u = join { a ~ x }; v = join { a ~ x }
    [name |-> "twinjoins", tree |-> Start(<<
        Assign("u", 1, JoinT(PatternT(<<Tilde("symmetric", "a", 1, Sym("x", 1))>>))),
        Assign("v", 1, JoinT(PatternT(<<Tilde("symmetric", "a", 1, Sym("x", 1))>>)))>>)],
    \* f(q) = { p = q }; a = f(1); b = f(2)
    [name |-> "repeat", tree |-> Start(<<
        FuncAssign("f", 1, <<"q">>, PatternT(<<PatAssign("p", 1, Sym("q", 1))>>)), NL,
        Assign("a", 2, CallT(Sym("f", 2), <<IntLit(<<1>>, 2)>>)), NL,
        Assign("b", 3, CallT(Sym("f", 3), <<IntLit(<<2>>, 3)>>))>>)],
    \* f(q) = join { a ~ x }; u = f(1); v = f(2)
    [name |-> "repeatjoin", tree |-> Start(<<
        FuncAssign("f", 1, <<"q">>, JoinT(PatternT(<<Tilde("symmetric", "a", 1, Sym("x", 1))>>))), NL,
        Assign("u", 2, CallT(Sym("f", 2), <<IntLit(<<1>>, 2)>>)), NL,
        Assign("v", 3, CallT(Sym("f", 3), <<IntLit(<<2>>, 3)>>))>>)]
>>

(***************************************************************************)
(* Input data: symbols = SymbolTable(builtins, {"x": [...], "y": [...]})   *)
(***************************************************************************)
Items(base, n) == List([k \in 1..n |-> Num(base + k)])

Inputs ==
    {[x |-> Items(10, nx), y |-> Items(20, ny), w |-> Items(30, nw)] :
        nx \in 0..MaxLen, ny \in 0..(MaxLen - 1), nw \in 0..(MaxLen - 1)}

builtins ==
    SymbolTable(0, [n \in {"+", "-", "len"} |-> Builtin(n)])

BuiltinScope == 1
ModuleScope == 2
NoAst == [type |-> "none"]

(***************************************************************************)
(* The state machine: a source text is built once (toast), then its Module *)
(* is run statement by statement against the module scope.                 *)
(***************************************************************************)
Init ==
    /\ \E p \in 1..Len(Programs) : prog = Programs[p].name /\ tree = Programs[p].tree
    /\ \E d \in Inputs : scopes = <<builtins, SymbolTable(BuiltinScope, d)>>
    /\ pc = "parsed"
    /\ ast = NoAst
    /\ ms = <<>>
    /\ ntag = 0
    /\ nrun = 0
    /\ next = 1
    /\ err = NoErr
    /\ log = <<>>

\* toast(parser.parse(text), None)
Build ==
    /\ pc = "parsed"
    /\ LET r == toast(tree, 0, [ms |-> ms, ntag |-> ntag]) IN
        /\ ms' = r.bs.ms
        /\ ntag' = r.bs.ntag
        /\ err' = r.err
        /\ ast' = IF r.err = NoErr THEN r.ast ELSE NoAst
        /\ pc' = IF r.err = NoErr THEN "running" ELSE "rejected"
    /\ UNCHANGED <<prog, tree, scopes, nrun, next, log>>

InputNames == {"x", "y", "w"}

\* mutant: a failing statement undoes the bindings of the statements before it
RunStatementRollback ==
    /\ pc = "running"
    /\ LET r == run(ast.statements[next], ModuleScope,
                    [scopes |-> scopes, ms |-> ms, log |-> log, nrun |-> nrun, active |-> <<>>]) IN
        /\ scopes' = IF r.err = NoErr THEN r.st.scopes
                      ELSE <<builtins, SymbolTable(BuiltinScope,
                                 [n \in InputNames |-> scopes[ModuleScope].symbols[n]])>>
        /\ ms' = r.st.ms
        /\ log' = r.st.log
        /\ nrun' = r.st.nrun
        /\ err' = r.err
        /\ next' = IF r.err = NoErr THEN next + 1 ELSE next
        /\ pc' = IF r.err # NoErr THEN "failed"
                 ELSE IF next = Len(ast.statements) THEN "done" ELSE "running"
    /\ UNCHANGED <<prog, tree, ast, ntag>>

\* run(Module): one turn of `for x in node.statements: run(x, symbols)`; an
\* error leaves the loop and the evaluation
RunStatement ==
    /\ pc = "running"
    /\ LET r == run(ast.statements[next], ModuleScope,
                    [scopes |-> scopes, ms |-> ms, log |-> log, nrun |-> nrun, active |-> <<>>]) IN
        /\ scopes' = r.st.scopes
        /\ ms' = r.st.ms
        /\ log' = r.st.log
        /\ nrun' = r.st.nrun
        /\ err' = r.err
        /\ next' = IF r.err = NoErr THEN next + 1 ELSE next
        /\ pc' = IF r.err # NoErr THEN "failed"
                 ELSE IF next = Len(ast.statements) THEN "done" ELSE "running"
    /\ UNCHANGED <<prog, tree, ast, ntag>>

Next == Build \/ RunStatement

Spec == Init /\ [][Next]_vars

(***************************************************************************)
(* Reading the log and the final state                                     *)
(***************************************************************************)
LogIdx == 1..Len(log)
Bound(name) == name \in DOMAIN scopes[ModuleScope].symbols
Global(name) == scopes[ModuleScope].symbols[name]
NX == Len(Global("x").items)
NY == Len(Global("y").items)
NW == Len(Global("w").items)

RECURSIVE Prod(_)
Prod(ns) == IF ns = <<>> THEN 1 ELSE Head(ns) * Prod(Tail(ns))

Lens(lists) == [k \in 1..Len(lists) |-> Len(lists[k])]

\* the number of results the join of a program is to have, given the input
Expected ==
    CASE prog \in {"join1", "nested"} -> NX
      [] prog \in {"join2", "join2r", "joincall"} -> NX * NY
      [] prog = "join3" -> NX * NY * NW
      [] prog = "join0" -> 1

JoinPrograms == {"join0", "join1", "join2", "join2r", "join3", "joincall", "nested"}

(***************************************************************************)
(* C1: a Join over candidate collections of lengths n1..nk returns a list  *)
(* of exactly n1*...*nk results, and an empty list, with no body           *)
(* evaluation at all (no row is ever set), when some ni is 0.              *)
(***************************************************************************)
C1_JoinCardinality ==
    /\ \A p \in LogIdx : log[p].ev = "evaluated" =>
          LET lens == Lens(log[p].lists)
              rows == {q \in LogIdx : log[q].ev = "row" /\ log[q].run = log[p].run} IN
          /\ \A q \in LogIdx : (log[q].ev = "ran" /\ log[q].run = log[p].run) =>
                /\ log[q].count = Prod(lens)
                /\ Cardinality(rows) = Prod(lens)
          /\ (\E k \in 1..Len(lens) : lens[k] = 0) => rows = {}
    /\ (pc = "done" /\ prog \in JoinPrograms) =>
          /\ Global("z").t = "list"
          /\ Len(Global("z").items) = Expected

C1_Witness ==
    /\ pc = "done" /\ prog = "join3"
    /\ NX >= 2 /\ NY >= 2 /\ NW >= 2
    /\ Len(Global("z").items) = NX * NY * NW

(***************************************************************************)
(* C2: the results are in row-major order of the product of the candidate  *)
(* collections in registration order: row i is the i-th product tuple, the *)
(* last registered slot varying fastest, and result i is made under it.    *)
(***************************************************************************)
\* element k of the i-th tuple (i from 0) of the row-major product
RowMajor(lists, i, k) ==
    LET stride == Prod(Lens(SubSeq(lists, k + 1, Len(lists)))) IN
    lists[k][((i \div stride) % Len(lists[k])) + 1]

C2_RowMajorOrder ==
    /\ \A p \in LogIdx : log[p].ev = "evaluated" =>
          \A q \in LogIdx : (log[q].ev = "row" /\ log[q].run = log[p].run) =>
             /\ q > p
             /\ Len(log[q].row) = Len(log[p].lists)
             /\ \A k \in 1..Len(log[p].lists) :
                   log[q].row[k] = RowMajor(log[p].lists, log[q].i, k)
             /\ \A r \in LogIdx :
                   (r < q /\ log[r].ev = "row" /\ log[r].run = log[p].run) => log[r].i < log[q].i
    /\ (pc = "done" /\ prog \in {"join2", "joincall"}) =>
          \A k \in 1..Len(Global("z").items) :
             LET rec == Global("z").items[k] IN
             /\ rec.id.n = <<k - 1>>
             /\ rec.fields["xi"] = Global("x").items[((k - 1) \div NY) + 1]
             /\ rec.fields["yi"] = Global("y").items[((k - 1) % NY) + 1]
    /\ (pc = "done" /\ prog = "join2r") =>
          \A k \in 1..Len(Global("z").items) :
             LET rec == Global("z").items[k] IN
             /\ rec.id.n = <<k - 1>>
             /\ rec.fields["yi"] = Global("y").items[((k - 1) \div NX) + 1]
             /\ rec.fields["xi"] = Global("x").items[((k - 1) % NX) + 1]

\* x of length 3 and y of length 2 under xi ~ x; yi ~ y: six records
C2_Witness ==
    /\ pc = "done" /\ prog = "join2" /\ NX = 3 /\ NY = 2
    /\ Len(Global("z").items) = 6
    /\ Global("z").items[2].fields = [xi |-> Num(11), yi |-> Num(22)]
    /\ Global("z").items[5].fields = [xi |-> Num(13), yi |-> Num(21)]

(***************************************************************************)
(* C3: in one call of Matching.run every registered candidate expression   *)
(* is evaluated at most once, and exactly once, before the first row is    *)
(* set, in a call that gets to enumerate; reading Placeholders during the  *)
(* combinations evaluates no candidate expression again.                   *)
(***************************************************************************)
CandEvals(r, k) == {q \in LogIdx : log[q].ev = "cand" /\ log[q].run = r /\ log[q].n = k}
Invocations == {q \in LogIdx : log[q].ev = "invoke"}

C3_CandidatesOnce ==
    /\ \A p \in LogIdx : log[p].ev = "run" =>
          \A k \in 1..Len(ms[log[p].m].collections) :
             /\ Cardinality(CandEvals(log[p].run, k)) <= 1
             /\ \A e \in LogIdx : (log[e].ev = "evaluated" /\ log[e].run = log[p].run) =>
                   /\ Cardinality(CandEvals(log[p].run, k)) = 1
                   /\ \A q \in CandEvals(log[p].run, k) : p < q /\ q < e
             /\ \A q \in LogIdx : (log[q].ev = "row" /\ log[q].run = log[p].run) =>
                   \A c \in CandEvals(log[p].run, k) : c < q
    \* the candidate ident(x) of joincall: ident is called once, whatever
    \* the number of rows is
    /\ (prog = "joincall" /\ pc = "done") =>
          /\ Cardinality(Invocations) = 1
          /\ \A q \in LogIdx : log[q].ev = "row" => \A c \in Invocations : c < q

C3_Witness ==
    /\ prog = "joincall" /\ pc = "done"
    /\ Cardinality({q \in LogIdx : log[q].ev = "row"}) >= 4
    /\ Cardinality({q \in LogIdx : log[q].ev = "resolve"}) >= 8
    /\ Cardinality(Invocations) = 1

(***************************************************************************)
(* C4: a function value made in scope S and called from another scope T   *)
(* evaluates its body in a fresh scope whose parent is S, so that a free   *)
(* name of the body resolves to S's binding, not T's.                      *)
(*   a = 1; f(p) = a + p; g(a) = f(a); r = g(5)      is to give r = 6      *)
(*   f = p => b + p; g = b => f(b); r = g(5)         is to fail: no b in S *)
(***************************************************************************)
C4_LexicalClosure ==
    /\ \A p \in LogIdx : log[p].ev = "body" =>
          scopes[log[p].scope].parent = log[p].defscope
    /\ (prog = "closure" /\ pc = "done") => Global("r") = Num(6)
    /\ prog = "closure_unbound" => pc # "done"

(***************************************************************************)
(* C5: binding a name that the same scope already binds fails with the     *)
(* redefinition error, whether or not the new value equals the old one,    *)
(* and leaves the binding as it was.                                       *)
(***************************************************************************)
RECURSIVE RootErr(_)
\* the error at the bottom of a chain of re-raised errors
RootErr(e) == IF e.kind = "RuntimeError" THEN RootErr(e.msg) ELSE e

Rebinds == {p \in LogIdx : log[p].ev = "bind" /\ log[p].had}

C5_RedefinitionFails ==
    \A p \in Rebinds :
       /\ log[p].err = RedefErr(log[p].symbol)
       /\ scopes[log[p].scope].symbols[log[p].symbol] = log[p].old
       /\ pc = "failed"
       /\ RootErr(err) = RedefErr(log[p].symbol)

C5_Witness ==
    /\ pc = "failed" /\ prog = "redef_same"
    /\ \E p \in Rebinds : log[p].value = log[p].old /\ Global("a") = Num(1)

(***************************************************************************)
(* C6: a scope may bind a name an ancestor binds; the scope then reads its *)
(* own value, the ancestor still reads the ancestor's; a name bound in no  *)
(* scope of the chain is not found (KeyError).                             *)
(***************************************************************************)
RECURSIVE Chain(_, _)
Chain(tables, s) == IF s = 0 THEN {} ELSE {s} \cup Chain(tables, tables[s].parent)

Shadowings == {p \in LogIdx : log[p].ev = "bind" /\ ~log[p].had /\ log[p].outer.err = NoErr}

C6_Shadowing ==
    /\ \A p \in LogIdx : (log[p].ev = "bind" /\ ~log[p].had) =>
          /\ log[p].err = NoErr
          /\ getitem(scopes, log[p].scope, log[p].symbol) = [val |-> log[p].value, err |-> NoErr]
    /\ \A p \in Shadowings :
          getitem(scopes, scopes[log[p].scope].parent, log[p].symbol) = log[p].outer
    /\ \A p \in LogIdx : log[p].ev = "lookup" =>
          IF \E a \in Chain(scopes, log[p].scope) : log[p].symbol \in DOMAIN scopes[a].symbols
          THEN log[p].err = NoErr
          ELSE log[p].err = KeyErr(log[p].symbol)
    /\ scopes[BuiltinScope] = builtins
    /\ (prog = "shadow" /\ pc = "done") =>
          Global("a") = Num(1) /\ Global("b") = Num(2) /\ Global("c") = Num(1)
    /\ (prog = "shadow_builtin" /\ pc = "done") =>
          Global("len") = Num(3) /\ Global("n") = Num(3) /\ Global("m") = Num(3)

C6_Witness ==
    /\ pc = "done" /\ prog = "shadow"
    /\ \E p \in Shadowings : log[p].symbol = "a" /\ log[p].value = Num(2) /\ log[p].outer.val = Num(1)
    /\ Global("c") = Num(1)

(***************************************************************************)
(* C7: a call with a wrong number of arguments fails before any argument   *)
(* or the body is evaluated, with a TypeError naming the Function node's   *)
(* line, the expected and the actual count.                                *)
(***************************************************************************)
Mismatches == {p \in LogIdx : log[p].ev = "invoke" /\ log[p].expects # log[p].got}

RECURSIVE Innermost(_)
\* the RuntimeError made by the first node that re-raised
Innermost(e) == IF e.msg.kind = "RuntimeError" THEN Innermost(e.msg) ELSE e

NothingEvaluatedAfter(p) == \A q \in LogIdx : q > p => log[q].ev = "wrap"

\* as claimed: the arity error itself is what the top-level caller observes
C7_ArityErrorObserved ==
    \A p \in Mismatches :
       /\ pc = "failed"
       /\ err = ArityErr(log[p].line, log[p].expects, log[p].got)
       /\ NothingEvaluatedAfter(p)

\* as amended: the Call node that made the call re-raises it as a
\* RuntimeError carrying the Call's line, the name TypeError and the message
C7_ArityErrorWrapped ==
    /\ \A p \in Mismatches :
          /\ pc = "failed"
          /\ NothingEvaluatedAfter(p)
          /\ err.kind = "RuntimeError"
          /\ RootErr(err) = ArityErr(log[p].line, log[p].expects, log[p].got)
          /\ p < Len(log) /\ log[p + 1].type = "Call"
          /\ Innermost(err).online = log[p + 1].line
          /\ Innermost(err).encountered = "TypeError"
    /\ (prog = "arity_less" /\ pc = "failed") => err = WrapErr(2, ArityErr(1, 2, 1))
    /\ (prog = "arity_more" /\ pc = "failed") => err = WrapErr(3, ArityErr(2, 1, 2))
    /\ (prog \in {"arity_less", "arity_more", "arity_nested"} /\ pc \in {"done", "failed"}) =>
          Mismatches # {}

C7_Witness ==
    /\ pc = "failed" /\ prog = "arity_nested"
    /\ Mismatches # {}
    /\ err = WrapErr(2, WrapErr(3, ArityErr(1, 2, 1)))

(***************************************************************************)
(* C8: a failure inside nested Call, Subscript and Attribute nodes is      *)
(* re-raised by each of them as a RuntimeError, so that the error at the   *)
(* top carries the line of the outermost such node and embeds, level by    *)
(* level, the kind and message of the error below, down to the original.   *)
(***************************************************************************)
Wraps == SelectSeq(log, LAMBDA e : e.ev = "wrap")
Reverse(q) == [k \in 1..Len(q) |-> q[Len(q) + 1 - k]]
CSA == {"Call", "Subscript", "Attribute"}

RECURSIVE ErrLines(_)
ErrLines(e) == IF e.kind = "RuntimeError" THEN <<e.online>> \o ErrLines(e.msg) ELSE <<>>

RECURSIVE Embeds(_)
Embeds(e) == IF e.kind = "RuntimeError" THEN e.encountered = e.msg.kind /\ Embeds(e.msg) ELSE TRUE

C8_ErrorsWrapped ==
    /\ Wraps # <<>> =>
          /\ pc = "failed"
          /\ err.kind = "RuntimeError"
          /\ ErrLines(err) = Reverse([k \in 1..Len(Wraps) |-> Wraps[k].line])
          /\ Embeds(err)
          /\ RootErr(err).kind \notin {"RuntimeError", "none"}
          /\ (\E k \in 1..Len(Wraps) : Wraps[k].type \in CSA) =>
                /\ Wraps[Len(Wraps)].type \in CSA
                /\ err.online = Wraps[Len(Wraps)].line
    /\ (prog = "nested_err" /\ pc \in {"done", "failed"}) =>
          /\ [k \in 1..Len(Wraps) |-> Wraps[k].type] = <<"Subscript", "Call", "Attribute">>
          /\ err = WrapErr(2, WrapErr(2, WrapErr(3, PyErr("IndexError", "list index out of range"))))
    /\ (prog = "arity_nested" /\ pc \in {"done", "failed"}) =>
          [k \in 1..Len(Wraps) |-> Wraps[k].type] = <<"Call", "Call">>

C8_Witness ==
    /\ pc = "failed" /\ prog = "nested_err"
    /\ Len(Wraps) = 3
    /\ err.online = 2 /\ err.msg.msg.online = 3
    /\ RootErr(err).kind = "IndexError"

(***************************************************************************)
(* C9: building a ~, ~~, !~ or !~~ assignment with matching None fails     *)
(* with a SyntaxError naming the operator and registers nothing; with a    *)
(* Matching it registers its right-hand side with that Matching.           *)
(***************************************************************************)
RECURSIVE TildeNodes(_)
RECURSIVE TildeNodesOf(_)
\* the ~ family nodes of a parse tree, in source order
TildeNodes(t) ==
    IF IsToken(t) THEN <<>>
    ELSE (IF t.data \in TildeData THEN <<t>> ELSE <<>>) \o TildeNodesOf(t.children)
TildeNodesOf(ts) == IF ts = <<>> THEN <<>> ELSE TildeNodes(Head(ts)) \o TildeNodesOf(Tail(ts))

Registers(n, m, bs) ==
    LET r == toast(n, m, bs)
        rhs == toast(n.children[2], m, bs) IN
    /\ r.err # SyntaxErr(opname[n.data])
    /\ rhs.err = NoErr =>
          /\ r.err = NoErr
          /\ r.ast.expression = Placeholder(m, Len(r.bs.ms[m].collections))
          /\ r.bs.ms[m].collections = Append(rhs.bs.ms[m].collections, rhs.ast)

C9_TildeNeedsMatching ==
    LET bs == [ms |-> ms, ntag |-> ntag]
        ns == TildeNodes(tree) IN
    /\ \A k \in 1..Len(ns) :
          /\ toast(ns[k], 0, bs).err = SyntaxErr(opname[ns[k].data])
          /\ toast(ns[k], 0, bs).bs = bs
          /\ \A m \in 1..Len(ms) : Registers(ns[k], m, bs)
    /\ pc = "rejected" =>
          /\ err.kind = "SyntaxError"
          /\ \E k \in 1..Len(ns) : err = SyntaxErr(opname[ns[k].data])

(***************************************************************************)
(* C10: when statement j of a Module fails, the bindings of statements     *)
(* 1..j-1 stay in the scope, statement j binds nothing, no later statement *)
(* is evaluated and the failure reaches the caller.                        *)
(***************************************************************************)
StmtNames(k) == {ast.statements[j].symbol : j \in 1..k}
ModuleBinds == {p \in LogIdx : log[p].ev = "bind" /\ log[p].scope = ModuleScope /\ log[p].err = NoErr}
Raised ==
    \E p \in LogIdx : log[p].ev = "wrap" \/ (log[p].ev = "bind" /\ log[p].err # NoErr)

C10_NoRollback ==
    /\ Raised => pc = "failed"
    /\ pc \in {"running", "done", "failed"} =>
          /\ DOMAIN scopes[ModuleScope].symbols = InputNames \cup StmtNames(next - 1)
          /\ Cardinality(ModuleBinds) = next - 1
          /\ \A p \in ModuleBinds : Global(log[p].symbol) = log[p].value
    /\ pc = "failed" =>
          /\ err # NoErr
          /\ next <= Len(ast.statements)
          /\ ~ENABLED Next

C10_Witness ==
    /\ pc = "failed" /\ prog = "fail3" /\ next = 3
    /\ Global("a") = Num(1) /\ Global("b") = Num(2) /\ ~Bound("c")

(***************************************************************************)
(* C11: the identity tag of a Pattern is minted when the node is built,    *)
(* once per occurrence of a pattern block in the source: Records of two    *)
(* distinct Pattern nodes never have equal identities, also when the       *)
(* blocks have the same text, the same line (or none) and the same         *)
(* combination index; Records of one Pattern node with one combination     *)
(* index have equal identities in every evaluation.                        *)
(***************************************************************************)
RECURSIVE CountPatterns(_)
RECURSIVE CountPatternsOf(_)
\* the number of pattern blocks of a parse tree
CountPatterns(t) ==
    IF IsToken(t) THEN 0
    ELSE (IF t.data = "pattern" THEN 1 ELSE 0) + CountPatternsOf(t.children)
CountPatternsOf(ts) == IF ts = <<>> THEN 0 ELSE CountPatterns(Head(ts)) + CountPatternsOf(Tail(ts))

RECURSIVE PatternTags(_)
RECURSIVE PatternTagsOf(_)
\* the tags of the Pattern nodes of an AST, the candidates of its joins included
PatternTags(n) ==
    CASE n.type = "Module" -> PatternTagsOf(n.statements)
      [] n.type = "Assignment" -> PatternTags(n.expression)
      [] n.type = "Pattern" -> <<n.tag>> \o PatternTagsOf(n.assignments)
      [] n.type = "Join" -> PatternTagsOf(ms[n.matching].collections) \o PatternTags(n.expression)
      [] n.type = "Function" -> PatternTags(n.body)
      [] n.type = "Block" -> PatternTagsOf(n.statements) \o PatternTags(n.expression)
      [] n.type = "Call" -> PatternTags(n.function) \o PatternTagsOf(n.arguments)
      [] n.type = "Subscript" -> PatternTags(n.object) \o PatternTags(n.index)
      [] n.type = "Attribute" -> PatternTags(n.object)
      [] OTHER -> <<>>
PatternTagsOf(ns) == IF ns = <<>> THEN <<>> ELSE PatternTags(Head(ns)) \o PatternTagsOf(Tail(ns))

Built_ == pc \in {"running", "done", "failed"}
Items_(name) == Global(name).items
Records == {p \in LogIdx : log[p].ev = "record"}

C11_IdentityPerNode ==
    /\ Built_ =>
          LET tags == PatternTags(ast) IN
          /\ Len(tags) = CountPatterns(tree)
          /\ \A j, k \in 1..Len(tags) : j # k => tags[j] # tags[k]
          /\ \A p \in Records : \E k \in 1..Len(tags) : log[p].out.id.tag = tags[k]
    /\ \A p, q \in Records :
          (log[p].tag = log[q].tag /\ log[p].out.id.n = log[q].out.id.n)
             <=> log[p].out.id = log[q].out.id
    /\ (prog = "twins" /\ pc = "done") =>
          /\ Global("a").id # Global("b").id
          /\ Global("a").id.n = <<>> /\ Global("b").id.n = <<>>
          /\ Global("a").fields = Global("b").fields
    /\ (prog = "twinjoins" /\ pc = "done") =>
          \A j, k \in 1..NX : Items_("u")[j].id # Items_("v")[k].id
    /\ (prog = "repeat" /\ pc = "done") =>
          /\ Global("a").id = Global("b").id
          /\ Global("a").fields # Global("b").fields
    /\ (prog = "repeatjoin" /\ pc = "done") =>
          \A j, k \in 1..NX : (Items_("u")[j].id = Items_("v")[k].id) <=> j = k

C11_Witness ==
    /\ pc = "done" /\ prog = "twinjoins" /\ NX >= 2
    /\ Items_("u")[2].id.n = <<1>> /\ Items_("v")[2].id.n = <<1>>
    /\ Items_("u")[2].id # Items_("v")[2].id

(***************************************************************************)
(* C12: every join has a Matching of its own.  A ~ binding built inside    *)
(* an inner join is a candidate of the inner join only, and running the    *)
(* inner join during a combination of the outer one changes neither the    *)
(* index and row of the outer Matching nor the number of its results.      *)
(***************************************************************************)
RECURSIVE Registered(_, _, _)
RECURSIVE RegisteredOf(_, _, _)
\* per join of a parse tree, in order of opening, the number of ~ family
\* bindings whose innermost enclosing join it is; cur is the join we are in
Registered(t, cur, cnt) ==
    IF IsToken(t) THEN cnt
    ELSE IF t.data = "join" THEN RegisteredOf(t.children, Len(cnt) + 1, Append(cnt, 0))
    ELSE IF t.data \in TildeData /\ cur # 0
    THEN RegisteredOf(t.children, cur, [cnt EXCEPT ![cur] = @ + 1])
    ELSE RegisteredOf(t.children, cur, cnt)
\* (the counts of the first tree are worked out before the rest is visited)
RegisteredOf(ts, cur, cnt) ==
    IF ts = <<>> THEN cnt
    ELSE LET c == Registered(Head(ts), cur, cnt) IN
         IF Len(c) >= Len(cnt) THEN RegisteredOf(Tail(ts), cur, c) ELSE c

Rans == {p \in LogIdx : log[p].ev = "ran"}
Fld(r, name) == r.fields[name]

C12_JoinsIndependent ==
    /\ Built_ =>
          LET cnt == Registered(tree, 0, <<>>) IN
          /\ Len(ms) = Len(cnt)
          /\ \A j \in 1..Len(ms) : Len(ms[j].collections) = cnt[j]
    /\ \A p \in Rans :
          /\ Len(log[p].left) = Len(log[p].outer)
          /\ \A k \in 1..Len(log[p].outer) :
                log[p].outer[k].m # log[p].m => log[p].left[k] = log[p].outer[k]
    /\ (prog \in {"nested", "nested2"} /\ pc = "done") =>
          LET nw == IF prog = "nested" THEN 1 ELSE NW
              z == Items_("z") IN
          /\ Len(z) = NX * nw
          /\ NX * nw > 0 => ms[1].i = NX * nw - 1 /\ ms[1].row[1] = Global("x").items[NX]
          /\ \A k \in 1..Len(z) :
                /\ Fld(z[k], "xi") = Global("x").items[((k - 1) \div nw) + 1]
                /\ Len(Fld(z[k], "inner").items) = NY
                /\ prog = "nested2" => Fld(z[k], "wi") = Global("w").items[((k - 1) % nw) + 1]

C12_Witness ==
    /\ pc = "done" /\ prog = "nested2" /\ NX = 2 /\ NY = 2 /\ NW = 2
    /\ Len(ms) = 2 /\ Len(ms[1].collections) = 2 /\ Len(ms[2].collections) = 1
    /\ Len(Items_("z")) = 4
    /\ \E p \in Rans : log[p].m = 2 /\ Len(log[p].outer) = 1 /\ log[p].outer[1].i = 3

(***************************************************************************)
(* C13: + and - associate to the left: a - b - c is (a - b) - c and        *)
(* a - b + c is (a - b) + c, for all operands.                             *)
(***************************************************************************)
C13_LeftAssociative ==
    /\ (prog = "sub_sub" /\ pc = "done") => Global("r") = Num((NX - NY) - NW)
    /\ (prog = "sub_add" /\ pc = "done") => Global("r") = Num((NX - NY) + NW)
    /\ prog \in {"sub_sub", "sub_add"} => pc # "failed"

(***************************************************************************)
(* C14: in every program the builder accepts, a Placeholder is resolved,   *)
(* and a Pattern reads the current index of its Matching, only while a run *)
(* of that Matching is in progress and has set the row of a combination:   *)
(* not while run evaluates the candidates, not after run has finished.     *)
(***************************************************************************)
Reads == {p \in LogIdx : log[p].ev \in {"resolve", "index", "unset"}}

C14_ResolvedOnlyInRun == \A p \in Reads : log[p].live

(***************************************************************************)
(* C15: in every scope of an evaluation (the module's, a Block's, a        *)
(* Pattern's record, the parameters of a call) a name is bound at most     *)
(* once and a second bind of it is an error; a call of a function whose    *)
(* parameter list names one parameter twice, (p, p) => ..., fails.         *)
(***************************************************************************)
Repeats(names) == \E j, k \in 1..Len(names) : j # k /\ names[j] = names[k]

C15_BoundOnce ==
    /\ \A p \in Rebinds : log[p].err = RedefErr(log[p].symbol)
    /\ \A p, q \in LogIdx :
          (/\ p # q /\ log[p].ev = "bind" /\ log[q].ev = "bind"
           /\ log[p].scope = log[q].scope /\ log[p].symbol = log[q].symbol)
             => (log[p].err # NoErr \/ log[q].err # NoErr)
    /\ \A p \in LogIdx : log[p].ev = "body" => ~Repeats(log[p].params)
    /\ \A p \in LogIdx :
          (log[p].ev = "invoke" /\ log[p].expects = log[p].got /\ Repeats(log[p].params))
             => pc = "failed"
    /\ prog = "dup_param" => pc # "done"

(***************************************************************************)
(* C16: evaluating a Pattern returns a new Record whose identity is (the   *)
(* pattern's tag, the current combination index of its Matching), or       *)
(* (tag, none) without a Matching; its fields are exactly the names of the *)
(* pattern's assignments, bound in a child scope of the enclosing scope,   *)
(* which gains no binding.  In the result of a Join whose expression is a  *)
(* Pattern the Record at position k has index k and the identities are     *)
(* pairwise distinct.                                                      *)
(***************************************************************************)
\* the current index of Matching m when log position p was written
RECURSIVE IndexAt(_, _)
IndexAt(m, p) ==
    IF p = 0 THEN <<>>
    ELSE IF log[p].ev = "row" /\ log[p].m = m THEN <<log[p].i>>
    ELSE IndexAt(m, p - 1)

\* the position at which the Pattern evaluation that ended at p began
Entry(p) == CHOOSE q \in 1..p : log[q].ev = "index" /\ log[q].scope = log[p].scope

C16_PatternRecord ==
    /\ \A p \in Records :
          LET e == log[p] IN
          /\ e.out.t = "obj"
          /\ e.out.id.tag = e.tag
          /\ e.m = 0 => e.out.id.n = <<>>
          /\ e.m # 0 =>
                /\ \E q \in 1..p : log[q].ev = "index" /\ log[q].scope = e.scope
                /\ e.out.id.n = IndexAt(e.m, Entry(p))
                /\ e.out.id.n # <<>>
          /\ DOMAIN e.out.fields = {e.names[k] : k \in 1..Len(e.names)}
          /\ e.out.fields = scopes[e.scope].symbols
          /\ scopes[e.scope].parent = e.parent
          /\ e.scope # e.parent
          /\ e.after = e.before
    /\ \A p \in Rans : log[p].pattern =>
          /\ \A k \in 1..Len(log[p].out) : log[p].out[k].id.n = <<k - 1>>
          /\ \A j, k \in 1..Len(log[p].out) : j # k => log[p].out[j].id # log[p].out[k].id
    /\ (prog = "plain_pattern" /\ pc = "done") =>
          /\ Global("p") = Obj(IDv(1, <<>>), [c |-> Num(1), d |-> Num(1)])
          /\ DOMAIN scopes[ModuleScope].symbols = InputNames \cup {"p"}

C16_Witness ==
    /\ pc = "done" /\ prog = "join2" /\ NX = 3 /\ NY = 2
    /\ Len(Items_("z")) = 6
    /\ Items_("z")[6].id = IDv(1, <<5>>)
    /\ DOMAIN Items_("z")[6].fields = {"xi", "yi"}
    /\ ~Bound("xi")

(***************************************************************************)
(* C17: while a node lexically inside a join is built, the matching        *)
(* context is the Matching of the innermost enclosing join, and it is null *)
(* outside every join.  This holds in the body of a function literal       *)
(* written within a join too: a ~ binding there is registered with that    *)
(* join's Matching and not rejected.                                       *)
(***************************************************************************)
RECURSIVE Contexts(_, _, _)
RECURSIVE ContextsOf(_, _, _)
\* a.ctx: per pattern block of a parse tree, in the order in which the blocks
\* are completed, the join it lies in (0: none); a.nj: the joins opened so far
Contexts(t, cur, a) ==
    IF IsToken(t) THEN a
    ELSE IF t.data = "join" THEN ContextsOf(t.children, a.nj + 1, [a EXCEPT !.nj = @ + 1])
    ELSE IF t.data = "pattern"
    THEN LET b == ContextsOf(t.children, cur, a) IN [b EXCEPT !.ctx = Append(@, cur)]
    ELSE ContextsOf(t.children, cur, a)
ContextsOf(ts, cur, a) ==
    IF ts = <<>> THEN a
    ELSE LET b == Contexts(Head(ts), cur, a) IN
         IF b.nj >= a.nj THEN ContextsOf(Tail(ts), cur, b) ELSE b

RECURSIVE TildeOutsideJoin(_, _)
\* some ~ family binding of the parse tree lies in no join
TildeOutsideJoin(t, injoin) ==
    /\ ~IsToken(t)
    /\ \/ t.data \in TildeData /\ ~injoin
       \/ \E k \in 1..Len(t.children) : TildeOutsideJoin(t.children[k], injoin \/ t.data = "join")

RECURSIVE PatternNodes(_)
RECURSIVE PatternNodesOf(_)
\* the Pattern nodes of an AST, as <<tag, matching>>
PatternNodes(n) ==
    CASE n.type = "Module" -> PatternNodesOf(n.statements)
      [] n.type = "Assignment" -> PatternNodes(n.expression)
      [] n.type = "Pattern" -> <<[tag |-> n.tag, matching |-> n.matching]>> \o PatternNodesOf(n.assignments)
      [] n.type = "Join" -> PatternNodesOf(ms[n.matching].collections) \o PatternNodes(n.expression)
      [] n.type = "Function" -> PatternNodes(n.body)
      [] n.type = "Block" -> PatternNodesOf(n.statements) \o PatternNodes(n.expression)
      [] n.type = "Call" -> PatternNodes(n.function) \o PatternNodesOf(n.arguments)
      [] n.type = "Subscript" -> PatternNodes(n.object) \o PatternNodes(n.index)
      [] n.type = "Attribute" -> PatternNodes(n.object)
      [] OTHER -> <<>>
PatternNodesOf(ns) == IF ns = <<>> THEN <<>> ELSE PatternNodes(Head(ns)) \o PatternNodesOf(Tail(ns))

C17_ContextIsInnermostJoin ==
    /\ pc = "rejected" => TildeOutsideJoin(tree, FALSE)
    /\ Built_ =>
          LET ctx == Contexts(tree, 0, [nj |-> 0, ctx |-> <<>>]).ctx
              ns == PatternNodes(ast) IN
          \A k \in 1..Len(ns) : ns[k].matching = ctx[ns[k].tag]

(***************************************************************************)
(* C18: while the body of combination i of a run is evaluated, every       *)
(* Placeholder of that Matching resolves to its element of the i-th tuple  *)
(* and the Pattern index is i, also after the body has made a call that    *)
(* runs the same Matching again (a function holding the join, called from  *)
(* inside the join's pattern).                                             *)
(***************************************************************************)
RECURSIVE RowOf(_, _)
\* the position at which run r set the row it is at when position p is written
RowOf(r, p) ==
    IF p = 0 THEN 0
    ELSE IF log[p].ev = "row" /\ log[p].run = r THEN p
    ELSE RowOf(r, p - 1)

C18_RowStableInBody ==
    /\ \A p \in LogIdx : (log[p].ev \in {"resolve", "index"} /\ log[p].live) =>
          LET q == RowOf(log[p].run, p) IN
          /\ q # 0
          /\ log[p].i = log[q].i
          /\ log[p].ev = "resolve" => log[p].val = log[q].row[log[p].n]
    /\ (prog = "reentrant" /\ pc = "done") =>
          /\ Len(Items_("r")) = NX * NY
          /\ \A k \in 1..(NX * NY) :
                /\ Fld(Items_("r")[k], "a") = Global("x").items[((k - 1) \div NY) + 1]
                /\ Fld(Items_("r")[k], "c") = Global("y").items[((k - 1) % NY) + 1]

====
